---- MODULE Spec2Model ----
(***************************************************************************)
(* Verification model of the automaton-auditor evaluation pipeline:        *)
(*   - the LangGraph task graph of src/core/graph.py and its state         *)
(*     reducers (src/core/state.py), run by the CLI (src/main.py);         *)
(*   - the evidences reducer as a pure function;                           *)
(*   - the judge response pipeline of src/agents/judges/base_judge.py.     *)
(***************************************************************************)
EXTENDS Integers, Sequences, FiniteSets, TLC

VARIABLES
    pc,          \* position of the process: start, imported, built, running, done, aborted
    env,         \* os.environ["AUDITOR_FAIL_FAST"]: "unset", "true" or "false"
    FAIL_FAST,   \* module constant of graph.py: "unbound" before import, else "true"/"false"
    conf,        \* [entry, vision, rubricKind]: caller, ENABLE_VISION_INSPECTOR, type of state["rubric"]
    nodes,       \* nodes of the compiled graph
    ch,          \* channel values of the running graph (the AgentState)
    tasks,       \* nodes scheduled in the current superstep
    running,     \* tasks started and not yet returned
    finished,    \* tasks of the current superstep that returned or raised
    failed,      \* tasks of the current superstep whose exception left the wrapper
    order,       \* completion order of the tasks of the current superstep
    view,        \* view[n]: the state node n was given when it started
    writes,      \* writes[n]: the update node n returned, pending until the barrier
    outcome,     \* outcome[n]: what the environment made node n do
    execCount,   \* execCount[n]: number of times node n was started
    merged,      \* nodes whose update has been merged into ch
    result,      \* value returned by graph.invoke: [returned, state]
    reordered,   \* some superstep's tasks completed in another order than their merge order
    mrg,         \* evidences reducer applied to arbitrary operands: [pc, state, update, out]
    jd,          \* one render_opinion call: see JInit
    cj,          \* one _resolve_criterion or synthesize call: [pc, ops, rules, missing, evidences, out, raised, scores]
    gr,          \* _ground_opinion applied once and again: [pc, pool, input, first, second]
    co,          \* _coerce_structured_response applied to a response: [pc, response, out]
    cx           \* the evidence context of one criterion: [pc, target, evidences, filtered, context]

gvars == <<pc, env, FAIL_FAST, conf, nodes, ch, tasks, running, finished, failed,
           order, view, writes, outcome, execCount, merged, result, reordered>>
vars == <<pc, env, FAIL_FAST, conf, nodes, ch, tasks, running, finished, failed,
          order, view, writes, outcome, execCount, merged, result, reordered, mrg, jd, cj, gr, co, cx>>

(***************************************************************************)
(* Bounds of the model.                                                    *)
(***************************************************************************)
\* number of rubric dimensions in state["rubric"]
NumDims == 2
\* longest evidence list given to the evidences reducer as an operand
MaxItems == 2

Dims == 1..NumDims

\* RubricDimension.target_artifact of dimension d (odd: repository, even: report)
TargetOf(d) == IF d % 2 = 1 THEN "github_repo" ELSE "pdf_report"

\* truthy keys of rubric.synthesis_rules in the graph runs
RubricRules == {"security_override", "missing_vision_cap", "high_variance_missing_evidence"}

Min(a, b) == IF a < b THEN a ELSE b
Max(a, b) == IF a > b THEN a ELSE b

(***************************************************************************)
(* Shared state (src/core/state.py).                                       *)
(***************************************************************************)
Producers == {"RepoInvestigator", "DocAnalyst", "VisionInspector", "CrossReference"}

\* a Python dict over a fixed key universe: key -> [present, items]
Absent == [present |-> FALSE, items |-> <<>>]
Entry(items) == [present |-> TRUE, items |-> items]
EmptyDict == [k \in Producers |-> Absent]
DictKeys(d) == {k \in DOMAIN d : d[k].present}
DictGet(d, k) == IF d[k].present THEN d[k].items ELSE <<>>

NoScores == [d \in Dims |-> 0]

\* dict |= dict: keys of the right operand replace those of the left
IorConcat(a, b) ==
    [k \in DOMAIN a |->
        IF b[k].present
        THEN Entry(DictGet(a, k) \o b[k].items)
        ELSE a[k]]
Ior(a, b) == [k \in DOMAIN a |-> IF b[k].present THEN b[k] ELSE a[k]]

\* list + list
Add(a, b) == a \o b

\* the initial_state the callers pass to graph.invoke
InitialState ==
    [evidences |-> EmptyDict,
     opinions |-> <<>>,
     errors |-> <<>>,
     aggregated_evidence |-> {},
     final_scores |-> NoScores,
     synthesis_summary |-> "",
     final_report |-> "",
     execution_end_time |-> "None"]

\* a node's partial update: the keys it returns and their values
NoUpdate ==
    [keys |-> {},
     evidences |-> EmptyDict,
     opinions |-> <<>>,
     errors |-> <<>>,
     aggregated_evidence |-> {},
     final_scores |-> NoScores,
     synthesis_summary |-> "",
     final_report |-> "",
     execution_end_time |-> "None"]

\* merging one update into the state: reducer channels reduce, the others take the last value
MergeUpdate(st, u) ==
    [evidences |-> IF "evidences" \in u.keys THEN Ior(st.evidences, u.evidences) ELSE st.evidences,
     opinions |-> IF "opinions" \in u.keys THEN Add(st.opinions, u.opinions) ELSE st.opinions,
     errors |-> IF "errors" \in u.keys THEN Add(st.errors, u.errors) ELSE st.errors,
     aggregated_evidence |-> IF "aggregated_evidence" \in u.keys
                             THEN u.aggregated_evidence ELSE st.aggregated_evidence,
     final_scores |-> IF "final_scores" \in u.keys THEN u.final_scores ELSE st.final_scores,
     synthesis_summary |-> IF "synthesis_summary" \in u.keys
                           THEN u.synthesis_summary ELSE st.synthesis_summary,
     final_report |-> IF "final_report" \in u.keys THEN u.final_report ELSE st.final_report,
     execution_end_time |-> IF "execution_end_time" \in u.keys
                            THEN u.execution_end_time ELSE st.execution_end_time]


(***************************************************************************)
(* Synthesis engine (src/agents/justice/chief_justice.py).                 *)
(***************************************************************************)
\* int() without round(): the fraction of n/d is dropped
Truncate(n, d) == n \div d

\* Python round() of the exact rational n/d: ties go to the even neighbour
RoundHalfEven(n, d) ==
    LET q == n \div d
        r == n % d
    IN  IF 2 * r < d THEN q
        ELSE IF 2 * r > d THEN q + 1
        ELSE IF q % 2 = 0 THEN q ELSE q + 1

\* a variant in which a judge without opinion counts as score 1
JudgeScoreDefaultsToOne(ops, j) ==
    LET mine == SelectSeq(ops, LAMBDA o : o.judge = j)
    IN  IF Len(mine) = 0 THEN 1 ELSE mine[1].score

\* next((o.score for o in opinions if o.judge == j), 3)
JudgeScore(ops, j) ==
    LET mine == SelectSeq(ops, LAMBDA o : o.judge = j)
    IN  IF Len(mine) = 0 THEN 3 ELSE mine[1].score

\* a variant in which no argument is ever taken to mention "security"
NeverMentionsSecurity(ops) == FALSE

\* next(o for o in opinions if o.judge == "Prosecutor").argument mentions "security"
ProsecutorMentionsSecurity(ops) ==
    LET mine == SelectSeq(ops, LAMBDA o : o.judge = "Prosecutor")
    IN  Len(mine) > 0 /\ mine[1].security

\* a variant that looks at the keys of evidences only, not at the lists
IsTargetMissingByKey(target, ev) ==
    IF target = "pdf_report"
    THEN ~ \E k \in {"DocAnalyst", "VisionInspector", "CrossReference"} : ev[k].present
    ELSE IF target = "github_repo"
    THEN ~ ev["RepoInvestigator"].present
    ELSE FALSE

IsTargetMissing(target, ev) ==
    IF target = "pdf_report"
    THEN ~ \E k \in {"DocAnalyst", "VisionInspector", "CrossReference"} :
              ev[k].present /\ Len(ev[k].items) > 0
    ELSE IF target = "github_repo"
    THEN ~ (ev["RepoInvestigator"].present /\ Len(ev["RepoInvestigator"].items) > 0)
    ELSE FALSE

\* _resolve_criterion: [score, rule] with rule naming the branch that produced the note
ResolveCriterion(ops, rules, missing) ==
    IF Len(ops) = 0 THEN [score |-> 3, rule |-> "no_opinions", capped |-> FALSE]
    ELSE
    LET P == JudgeScore(ops, "Prosecutor")
        D == JudgeScore(ops, "Defense")
        T == JudgeScore(ops, "TechLead")
        variance == Max(P, Max(D, T)) - Min(P, Min(D, T))
        missingCap == IF missing /\ "missing_vision_cap" \in rules THEN 4 ELSE 5
        blend == RoundHalfEven(4 * P + 2 * D + 4 * T, 10)
        pragmatic == RoundHalfEven(P + D + 2 * T, 4)
        base == IF variance > 2
                THEN (IF P <= 2 THEN Min(blend, 3) ELSE blend)
                ELSE pragmatic
        rule == IF variance > 2
                THEN (IF P <= 2 THEN "high_variance_cap" ELSE "high_variance")
                ELSE "moderate"
        clamped == Max(1, Min(missingCap, base))
        hvCap == variance > 2 /\ "high_variance_missing_evidence" \in rules /\ missing
    IN  IF P = 1 /\ ProsecutorMentionsSecurity(ops)
        THEN [score |-> Min(P + 2, 3), rule |-> "security", capped |-> FALSE]
        ELSE [score |-> IF hvCap THEN Min(clamped, 3) ELSE clamped,
              rule |-> rule, capped |-> hvCap]

\* next(o for o in opinions if o.judge == "Prosecutor") has no default: it raises
\* StopIteration when the score 1 is not the score of a Prosecutor opinion
ResolveRaises(ops) ==
    /\ Len(ops) > 0
    /\ JudgeScore(ops, "Prosecutor") = 1
    /\ Len(SelectSeq(ops, LAMBDA o : o.judge = "Prosecutor")) = 0

\* format_full_report: max(scores) over a group of opinions_by_criterion raises
\* ValueError on an empty group; the groups are those of the ids that occur
FormatRaises(opinions) ==
    \E c \in {opinions[i].criterion_id : i \in 1..Len(opinions)} :
        Len(SelectSeq(opinions, LAMBDA o : o.criterion_id = c)) = 0

\* whether ChiefJustice.synthesize raises
SynthesizeRaises(opinions) ==
    \/ \E d \in Dims : ResolveRaises(SelectSeq(opinions, LAMBDA o : o.criterion_id = d))
    \/ FormatRaises(opinions)

\* ChiefJustice.synthesize: one final score per rubric dimension
SynthesizeScores(opinions, evidences, rules) ==
    [d \in Dims |->
        ResolveCriterion(SelectSeq(opinions, LAMBDA o : o.criterion_id = d),
                         rules,
                         IsTargetMissing(TargetOf(d), evidences)).score]

Synthesize(st) == SynthesizeScores(st.opinions, st.evidences, RubricRules)

\* arguments of one _resolve_criterion call: the keys of synthesis_rules with a
\* truthy value (one of them unknown to the engine), and at most one opinion
\* per judge, in the order the judges are joined
RuleKeys == RubricRules \cup {"report_style"}
SynthesisRules == SUBSET RuleKeys
OpinionOf(judge, score, security) ==
    [judge |-> judge, criterion_id |-> 1, score |-> score, security |-> security]
OpinionsOfJudge(judge) ==
    {<<>>} \cup {<<OpinionOf(judge, s, sec)>> :
                    s \in 1..5, sec \in (IF judge = "Prosecutor" THEN BOOLEAN ELSE {FALSE})}
CriterionOpinions ==
    {p \o d \o t : p \in OpinionsOfJudge("Prosecutor"), d \in OpinionsOfJudge("Defense"),
                   t \in OpinionsOfJudge("TechLead")}
NoResolution == [score |-> 0, rule |-> "none", capped |-> FALSE]
IdleCj == [pc |-> "idle", ops |-> <<>>, rules |-> {}, missing |-> FALSE, evidences |-> EmptyDict,
           out |-> NoResolution, raised |-> FALSE, scores |-> NoScores]

\* arguments of one synthesize call: state["opinions"] holds at most three
\* opinions, each of any judge on any rubric dimension, a Prosecutor's score 1
\* arguing with a security flaw; state["evidences"] is empty, holds repository
\* evidence only, or holds report evidence and the empty list that a failed
\* repository detective leaves
SynthOpinions ==
    {[judge |-> j, criterion_id |-> d, score |-> s, security |-> (j = "Prosecutor" /\ s = 1)] :
        j \in {"Prosecutor", "Defense", "TechLead"}, d \in Dims, s \in {1, 3, 5}}
ZeroOrOneOpinion == {<<>>} \cup {<<o>> : o \in SynthOpinions}
OpinionLists == {a \o b \o c : a \in ZeroOrOneOpinion, b \in ZeroOrOneOpinion, c \in ZeroOrOneOpinion}
SynthEvidences ==
    {EmptyDict,
     [EmptyDict EXCEPT !["RepoInvestigator"] = Entry(<<"repo_ev">>)],
     [EmptyDict EXCEPT !["RepoInvestigator"] = Entry(<<>>),
                       !["DocAnalyst"] = Entry(<<"doc_ev">>)]}

(***************************************************************************)
(* Nodes of the graph (src/core/graph.py, src/agents).                     *)
(***************************************************************************)
Detectives == {"repo_investigator", "doc_analyst", "vision_inspector"}
Judges == {"prosecutor", "defense", "tech_lead"}
AllNodes == {"initialize", "aggregate_evidence", "handle_error", "chief_justice", "finalize"}
            \cup Detectives \cup Judges

\* nodes passed through _safe_node in create_auditor_graph
Wrapped == AllNodes \ {"initialize", "handle_error"}

\* node_name argument of _safe_node
NodeName(n) ==
    CASE n = "repo_investigator" -> "RepoInvestigator"
      [] n = "doc_analyst" -> "DocAnalyst"
      [] n = "vision_inspector" -> "VisionInspector"
      [] n = "aggregate_evidence" -> "AggregateEvidence"
      [] n = "prosecutor" -> "Prosecutor"
      [] n = "defense" -> "Defense"
      [] n = "tech_lead" -> "TechLead"
      [] n = "chief_justice" -> "ChiefJustice"
      [] n = "finalize" -> "Finalize"
      [] OTHER -> n

\* nodes added by create_auditor_graph for a configuration
GraphNodes(vision) == IF vision THEN AllNodes ELSE AllNodes \ {"vision_inspector"}

\* edges added by create_auditor_graph
GraphEdges(ns) ==
    {<<"initialize", d>> : d \in Detectives \cap ns}
    \cup {<<d, "aggregate_evidence">> : d \in Detectives \cap ns}
    \cup {<<"aggregate_evidence", j>> : j \in Judges}
    \cup {<<j, "handle_error">> : j \in Judges}
    \cup {<<"handle_error", "chief_justice">>, <<"chief_justice", "finalize">>}

\* what the environment can make a node do
JudgeAnswers == {[score |-> 1, security |-> TRUE], [score |-> 5, security |-> FALSE]}
Ok == [oc |-> "ok", score |-> 3, security |-> FALSE]
Exc(kind) == [oc |-> kind, score |-> 3, security |-> FALSE]
NotRun == [oc |-> "none", score |-> 3, security |-> FALSE]
OutcomeChoices(n, rubricKind) ==
    CASE n = "repo_investigator" -> {Ok, Exc("raise"), Exc("security")}
      [] n = "tech_lead" /\ rubricKind = "object" -> {Exc("not_subscriptable")}
      [] n \in Judges -> {Exc("raise")} \cup {[oc |-> "ok", score |-> a.score, security |-> a.security] :
                                              a \in JudgeAnswers}
      [] n \in Wrapped -> {Ok, Exc("raise")}
      [] OTHER -> {Ok}

\* whether the node function raises
Raises(n, o) == o.oc # "ok"

\* evaluate_all_criteria: one opinion per rubric dimension, in rubric order
JudgeOpinions(n, o) ==
    [d \in Dims |-> [judge |-> NodeName(n), criterion_id |-> d,
                     score |-> o.score, security |-> o.security]]

\* the update a node function returns when it does not raise
NodeUpdate(n, st, o) ==
    CASE n = "initialize" ->
            [NoUpdate EXCEPT !.keys = {"evidences", "opinions", "errors"}]
      [] n = "repo_investigator" ->
            [NoUpdate EXCEPT !.keys = {"evidences"},
                             !.evidences = [EmptyDict EXCEPT !["RepoInvestigator"] = Entry(<<"repo_ev">>)]]
      [] n = "doc_analyst" ->
            [NoUpdate EXCEPT !.keys = {"evidences"},
                             !.evidences = [EmptyDict EXCEPT !["DocAnalyst"] =
                                 Entry(IF st.evidences["RepoInvestigator"].present
                                       THEN <<"doc_ev", "doc_xref">> ELSE <<"doc_ev">>)]]
      [] n = "vision_inspector" ->
            [NoUpdate EXCEPT !.keys = {"evidences"},
                             !.evidences = [EmptyDict EXCEPT !["VisionInspector"] = Entry(<<"vision_ev">>)]]
      [] n = "aggregate_evidence" ->
            LET summary == {<<k, Len(st.evidences[k].items)>> : k \in DictKeys(st.evidences)}
                xref == Len(DictGet(st.evidences, "RepoInvestigator")) > 0
            IN  IF xref
                THEN [NoUpdate EXCEPT !.keys = {"aggregated_evidence", "evidences"},
                                      !.aggregated_evidence = summary,
                                      !.evidences = [EmptyDict EXCEPT !["CrossReference"] = Entry(<<"xref_ev">>)]]
                ELSE [NoUpdate EXCEPT !.keys = {"aggregated_evidence"},
                                      !.aggregated_evidence = summary]
      [] n \in Judges ->
            [NoUpdate EXCEPT !.keys = {"opinions"}, !.opinions = JudgeOpinions(n, o)]
      [] n = "handle_error" ->
            [NoUpdate EXCEPT !.keys = {"errors"}, !.errors = st.errors]
      [] n = "chief_justice" ->
            [NoUpdate EXCEPT !.keys = {"final_scores", "synthesis_summary", "final_report"},
                             !.final_scores = Synthesize(st),
                             !.synthesis_summary = "summary",
                             !.final_report = "report"]
      [] n = "finalize" ->
            [NoUpdate EXCEPT !.keys = {"execution_end_time"}, !.execution_end_time = "set"]

\* empty_updates argument of _safe_node
EmptyUpdates(n) ==
    CASE n = "repo_investigator" ->
            [NoUpdate EXCEPT !.keys = {"evidences"},
                             !.evidences = [EmptyDict EXCEPT !["RepoInvestigator"] = Entry(<<>>)]]
      [] n = "doc_analyst" ->
            [NoUpdate EXCEPT !.keys = {"evidences"},
                             !.evidences = [EmptyDict EXCEPT !["DocAnalyst"] = Entry(<<>>)]]
      [] n = "vision_inspector" ->
            [NoUpdate EXCEPT !.keys = {"evidences"},
                             !.evidences = [EmptyDict EXCEPT !["VisionInspector"] = Entry(<<>>)]]
      [] n = "aggregate_evidence" ->
            [NoUpdate EXCEPT !.keys = {"aggregated_evidence"}]
      [] n \in Judges ->
            [NoUpdate EXCEPT !.keys = {"opinions"}]
      [] n = "chief_justice" ->
            [NoUpdate EXCEPT !.keys = {"final_scores", "synthesis_summary", "final_report"},
                             !.synthesis_summary = "Synthesis skipped due to earlier errors."]
      [] OTHER -> NoUpdate

\* the errors entry f"{node_name}: {exc}"
ErrorEntry(n, o) == [node |-> NodeName(n), message |-> o.oc]

\* _safe_node.wrapper, with ff the FAIL_FAST constant: [raised, upd]
SafeNodeAlwaysDowngrade(n, st, o, ff) ==
    IF n \in Wrapped /\ Raises(n, o)
    THEN [raised |-> FALSE,
          upd |-> [EmptyUpdates(n) EXCEPT !.keys = @ \cup {"errors"},
                                          !.errors = <<ErrorEntry(n, o)>>]]
    ELSE [raised |-> FALSE, upd |-> NodeUpdate(n, st, o)]
SafeNodeNoErrorEntry(n, st, o, ff) ==
    IF n \in Wrapped /\ Raises(n, o)
    THEN IF ff
         THEN [raised |-> TRUE, upd |-> NoUpdate]
         ELSE [raised |-> FALSE, upd |-> EmptyUpdates(n)]
    ELSE [raised |-> FALSE, upd |-> NodeUpdate(n, st, o)]
SafeNode(n, st, o, ff) ==
    IF n \in Wrapped /\ Raises(n, o)
    THEN IF ff
         THEN [raised |-> TRUE, upd |-> NoUpdate]
         ELSE [raised |-> FALSE,
               upd |-> [EmptyUpdates(n) EXCEPT !.keys = @ \cup {"errors"},
                                               !.errors = <<ErrorEntry(n, o)>>]]
    ELSE [raised |-> FALSE, upd |-> NodeUpdate(n, st, o)]


(***************************************************************************)
(* One call of BaseJudge.render_opinion (src/agents/judges/base_judge.py). *)
(* The criterion is a well-formed rubric dimension and the evidence pool   *)
(* holds Evidence objects; the provider is free in what it returns or      *)
(* raises at every call.                                                   *)
(***************************************************************************)
\* StructuredOpinion.argument: min_length
MinArgLen == 100
\* the score of the neutral opinions
NeutralScore == 3
\* the cap of an opinion without verified evidence
UnverifiedCap == 2
\* score: ge, le
MinScore == 1
MaxScore == 5
\* len("[UNVERIFIED_PATH]")
MarkerLen == 17

\* largest configured max_retries
MaxRetries == 2
\* most sentences in an argument the provider writes
MaxSentences == 2
\* length of the path-like reference in a sentence that names an unknown path
PathLen == 20

\* a sentence of an argument: what the grounding patterns see in it, and its length
Sent(kind, len) == [kind |-> kind, len |-> len]

\* len(argument) of sentences joined by single spaces
RECURSIVE ArgLen(_)
ArgLen(a) ==
    IF a = <<>> THEN 0
    ELSE IF Len(a) = 1 THEN a[1].len
    ELSE a[1].len + 1 + ArgLen(Tail(a))

\* argument += " <sentence>"
AppendNote(a, kind, len) == Append(a, Sent(kind, len - 1))

\* the sentences a provider writes: plain text (long, brief), an unanchored
\* high-risk claim, a claim the strong evidence contradicts, a sentence naming
\* a path that no evidence location supports
ProviderSentences ==
    {Sent("plain", 110), Sent("plain", 30), Sent("risky", 70), Sent("contra", 70),
     Sent("path", 70)}

RECURSIVE Arguments(_)
Arguments(n) ==
    IF n = 0 THEN {<<>>}
    ELSE LET shorter == Arguments(n - 1)
         IN shorter \cup
            {Append(a, s) : a \in {b \in shorter : Len(b) = n - 1}, s \in ProviderSentences}

\* citations the provider gives: matching a known evidence location, or not
ProviderCitations == {<<>>, <<"known">>, <<"unknown">>, <<"known", "unknown">>}

Opinion(score, argument, cited) ==
    [score |-> score, argument |-> argument, cited |-> cited]
NoOpinion == Opinion(0, <<>>, <<>>)

\* values a payload holds under a key
AbsentKey == [k |-> "absent", v |-> 0, a |-> <<>>, c |-> <<>>]
IntValue(n) == [k |-> "int", v |-> n, a |-> <<>>, c |-> <<>>]
StrValue(n) == [k |-> "numeric_str", v |-> n, a |-> <<>>, c |-> <<>>]
BadValue == [k |-> "other", v |-> 0, a |-> <<>>, c |-> <<>>]
TextValue(a) == [k |-> "str", v |-> 0, a |-> a, c |-> <<>>]
ListValue(c) == [k |-> "list", v |-> 0, a |-> <<>>, c |-> c]
ListStrValue(c) == [k |-> "list_str", v |-> 0, a |-> <<>>, c |-> c]
BareStrValue(c) == [k |-> "bare_str", v |-> 0, a |-> <<>>, c |-> c]

Payload(score, argument, cited) ==
    [score |-> score, argument |-> argument, cited_evidence |-> cited]

PayloadScores ==
    {AbsentKey, BadValue, IntValue(MinScore - 1), IntValue(2), IntValue(MaxScore + 1),
     StrValue(4), StrValue(MaxScore + 2)}
PayloadArguments ==
    {AbsentKey, BadValue, TextValue(<<Sent("plain", 30)>>),
     TextValue(<<Sent("plain", 110), Sent("risky", 70)>>)}
PayloadCitations ==
    {AbsentKey, BadValue, ListValue(<<>>), ListValue(<<"known">>), ListValue(<<"unknown">>),
     ListStrValue(<<>>), ListStrValue(<<"known">>), BareStrValue(<<"unknown">>)}

NoPayload == Payload(AbsentKey, AbsentKey, AbsentKey)
Response(shape, op, payload, text) ==
    [shape |-> shape, op |-> op, payload |-> payload, text |-> text]

\* what a provider call returns
TypedResponses ==
    {Response("typed", Opinion(s, a, c), NoPayload, <<>>) :
        s \in MinScore..MaxScore,
        a \in {b \in Arguments(MaxSentences) : ArgLen(b) >= MinArgLen},
        c \in ProviderCitations}
MappingResponses ==
    {Response("mapping", NoOpinion, Payload(s, a, c), <<>>) :
        s \in PayloadScores, a \in PayloadArguments, c \in PayloadCitations}
JsonTextResponses ==
    {Response("json_object_text", NoOpinion, Payload(s, a, c), <<>>) :
        s \in PayloadScores, a \in PayloadArguments, c \in PayloadCitations}
TextResponses ==
    {Response(shape, NoOpinion, NoPayload, <<>>) : shape \in {"json_non_object_text", "empty_text"}}
    \cup {Response("plain_text", NoOpinion, NoPayload, a) :
            a \in {<<Sent("plain", 30)>>, <<Sent("plain", 110), Sent("risky", 70)>>}}
Responses == TypedResponses \cup MappingResponses \cup JsonTextResponses \cup TextResponses

\* what a provider call raises: the class, the markers its message holds, len(str(exc))
Raised(name, cls, msg, len) == [name |-> name, cls |-> cls, msg |-> msg, len |-> len]
ProviderExceptions ==
    {Raised("rate_limit", "Exception", {"429"}, 60),
     Raised("insufficient_quota", "Exception", {"429", "insufficient_quota"}, 60),
     Raised("payment_required", "Exception", {"402"}, 20),
     Raised("tool_use_failed", "Exception", {"tool_use_failed"}, 60),
     Raised("validation", "ValidationError", {}, 60),
     Raised("validation_rate_limit", "OutputParserException", {"429"}, 60),
     Raised("timeout", "Exception", {}, 20)}
\* 'list' object has no attribute 'setdefault'
AttributeError == Raised("attribute_error", "Exception", {}, 47)
NoException == Raised("none", "none", {}, 0)

\* marker in message: a marker is found in the fragment that holds it
MarkerIn(marker, msg) ==
    \/ marker \in msg
    \/ marker = "quota" /\ "insufficient_quota" \in msg

IsToolUseFailure(exc) ==
    \E m \in {"tool_use_failed", "Failed to call a function", "function_calling"} :
        MarkerIn(m, exc.msg)

IsRateLimitError(exc) ==
    \E m \in {"429", "rate_limit_exceeded", "Rate limit reached", "tokens per minute",
              "insufficient_quota"} :
        MarkerIn(m, exc.msg)

IsInsufficientQuota(exc) ==
    \E m \in {"insufficient_quota", "quota", "402",
              "depleted your monthly included credits", "payment required"} :
        MarkerIn(m, exc.msg)

\* except (ValidationError, OutputParserException)
IsValidationFailure(exc) == exc.cls \in {"ValidationError", "OutputParserException"}

\* argument + " " + ".".join(["pad"] * ((100 - len(argument)) // 4 + 1))
PadArgument(a) ==
    IF ArgLen(a) >= MinArgLen THEN a
    ELSE Append(a, Sent("pad", 4 * ((MinArgLen - ArgLen(a)) \div 4 + 1) - 1))

\* StructuredOpinion(**payload): the fields pydantic accepts
ValidStructuredOpinion(score, argument, cited) ==
    /\ score.k = "int" /\ score.v \in MinScore..MaxScore
    /\ argument.k = "str" /\ ArgLen(argument.a) >= MinArgLen
    /\ cited.k = "list"

\* the neutral opinion of a payload that fails validation
MalformedOpinion ==
    Opinion(NeutralScore, PadArgument(<<Sent("malformed_note", 218)>>), <<"malformed_output">>)

\* the guard rails that end _coerce_structured_response
GuardRails(op) ==
    LET score == IF op.score \in MinScore..MaxScore THEN op.score ELSE NeutralScore
        argument == IF ArgLen(op.argument) < MinArgLen
                    THEN AppendNote(op.argument, "guard_note", 82)
                    ELSE op.argument
        cited == IF op.cited = <<>> THEN <<"insufficient_verified_evidence">> ELSE op.cited
    IN Opinion(score, argument, cited)

\* expected_keys.issubset(response.keys()), the mapping holding its criterion_id
HasExpectedKeys(payload) ==
    /\ payload.score.k # "absent"
    /\ payload.argument.k # "absent"
    /\ payload.cited_evidence.k # "absent"

\* str(response) of a mapping: its repr, which holds the argument it has
MappingText(payload) ==
    <<Sent("mapping_repr", 30 + (IF payload.argument.k = "str"
                                THEN ArgLen(payload.argument.a) ELSE 0))>>

\* the payload of a response that is not a typed opinion; "none" when the text is
\* JSON but no object
PayloadOf(response) ==
    CASE response.shape = "json_object_text"
         \/ (response.shape = "mapping" /\ HasExpectedKeys(response.payload)) ->
            [kind |-> "dict", payload |-> response.payload]
      [] response.shape = "mapping" ->
            [kind |-> "dict",
             payload |-> Payload(IntValue(NeutralScore),
                                 TextValue(PadArgument(MappingText(response.payload))),
                                 ListValue(<<"fallback_evidence">>))]
      [] response.shape = "json_non_object_text" ->
            [kind |-> "none", payload |-> NoPayload]
      [] response.shape = "plain_text" ->
            [kind |-> "dict",
             payload |-> Payload(IntValue(NeutralScore), TextValue(PadArgument(response.text)),
                                 ListValue(<<"fallback_evidence">>))]
      [] OTHER ->
            [kind |-> "dict",
             payload |-> Payload(IntValue(NeutralScore),
                                 TextValue(PadArgument(<<Sent("unparseable_note", 34)>>)),
                                 ListValue(<<"fallback_evidence">>))]

\* _coerce_structured_response: the opinion, or the exception that leaves it
CoerceStructuredResponse(response) ==
    IF response.shape = "typed" THEN [exc |-> NoException, op |-> response.op]
    ELSE
    LET extracted == PayloadOf(response)
        p == extracted.payload
        score == CASE p.score.k = "numeric_str" -> IntValue(p.score.v)
                   [] p.score.k = "absent" -> IntValue(NeutralScore)
                   [] OTHER -> p.score
        argument == IF p.argument.k = "absent"
                    THEN TextValue(PadArgument(<<Sent("fallback_note", 56)>>))
                    ELSE p.argument
        cited == CASE p.cited_evidence.k = "absent" -> ListValue(<<"fallback_evidence">>)
                   [] p.cited_evidence.k \in {"list_str", "bare_str"} ->
                          ListValue(p.cited_evidence.c)
                   [] OTHER -> p.cited_evidence
        structured == IF ValidStructuredOpinion(score, argument, cited)
                      THEN Opinion(score.v, argument.a, cited.c)
                      ELSE MalformedOpinion
    IN IF extracted.kind = "none"
       THEN [exc |-> AttributeError, op |-> NoOpinion]
       ELSE [exc |-> NoException, op |-> GuardRails(structured)]

\* _filter_evidence_by_target: the keys of the detectors allowed for the target
AllowedProducers(target) ==
    CASE target = "github_repo" -> {"RepoInvestigator"}
      [] target = "pdf_report" ->
            {"DocAnalyst", "VisionInspector", "CrossReference", "RepoInvestigator"}
      [] OTHER -> {}
FilterEvidenceByTarget(ev, target) ==
    IF target = "none" THEN ev
    ELSE [k \in Producers |-> IF k \in AllowedProducers(target) THEN ev[k] ELSE Absent]

\* detective_targets of _format_evidence_for_context
DetectiveTarget(k) == IF k = "RepoInvestigator" THEN "github_repo" ELSE "pdf_report"

\* _format_evidence_for_context: the sections of the context, one per detective
\* that is not skipped, each with the evidence it lists; the context is taken
\* to fit llm_max_context_chars and each list llm_max_evidence_items_per_detective
FormatEvidenceForContext(ev, target) ==
    [k \in Producers |->
        IF ev[k].present /\ (target = "none" \/ DetectiveTarget(k) = target)
        THEN ev[k] ELSE Absent]

\* render_opinion: the evidence context put into the user message
EvidenceContext(ev, target) ==
    FormatEvidenceForContext(FilterEvidenceByTarget(ev, target), target)

\* the evidences a judge is given: each detective's key absent, with an empty
\* list, or with evidence; the criterion's target_artifact, "none" when unset
ContextEvidences == [Producers -> {Absent, Entry(<<>>), Entry(<<"ev">>)}]
Targets == {"github_repo", "pdf_report", "none"}
IdleCx == [pc |-> "idle", target |-> "none", evidences |-> EmptyDict,
           filtered |-> EmptyDict, context |-> EmptyDict]

NotCoerced == [exc |-> NoException, op |-> NoOpinion]
IdleCo == [pc |-> "idle", response |-> Response("none", NoOpinion, NoPayload, <<>>),
           out |-> NotCoerced]

\* the evidence pools: no evidence at all; evidence whose locations are empty;
\* evidence with locations; evidence that also holds one of the strong proofs
EvidencePools == {"empty", "blank", "located", "strong"}

\* _collect_allowed_locations(evidences) is not empty
HasAllowedLocations(pool) == pool # "empty"

\* _is_citation_verified
IsCitationVerified(citation) == citation = "known"

\* _fallback_citations
FallbackCitations(pool) ==
    IF pool \in {"located", "strong"}
    THEN <<"top_location">>
    ELSE <<"insufficient_verified_evidence">>

\* _is_high_risk_claim and not _sentence_has_evidence_anchor
IsHighRiskClaim(s) == s.kind \in {"risky", "placeholder"}

\* argument.replace(path, "[UNVERIFIED_PATH]") for every unverified path
ReplaceUnverifiedPaths(a) ==
    [i \in DOMAIN a |->
        IF a[i].kind = "path" THEN Sent("redacted", a[i].len - PathLen + MarkerLen) ELSE a[i]]

\* " ".join(kept_sentences).strip() or the placeholder
Cleaned(kept) == IF kept = <<>> THEN <<Sent("placeholder", 55)>> ELSE kept

\* _prune_unverified_claim_sentences
PruneUnverifiedClaimSentences(a) == Cleaned(SelectSeq(a, LAMBDA s : ~IsHighRiskClaim(s)))

\* _remove_contradicted_claim_sentences
RemoveContradictedClaimSentences(a, pool) ==
    IF pool # "strong" THEN a
    ELSE Cleaned(SelectSeq(a, LAMBDA s : s.kind # "contra"))

\* a variant that subtracts one point however many penalty kinds fired
PenalizedOnce(score, penalties) == Max(MinScore, score - 1)

\* max(1, adjusted_score - penalties)
PenalizedScore(score, penalties) == Max(MinScore, score - penalties)

\* _ground_opinion: the grounded opinion, or the ValidationError of the final
\* StructuredOpinion(...)
GroundOpinion(op, pool) ==
    IF ~HasAllowedLocations(pool) THEN [exc |-> NoException, op |-> op]
    ELSE
    LET unverified == \E i \in DOMAIN op.argument : op.argument[i].kind = "path"
        replaced == ReplaceUnverifiedPaths(op.argument)
        pruned == PruneUnverifiedClaimSentences(replaced)
        removed_claims == \E i \in DOMAIN replaced : IsHighRiskClaim(replaced[i])
        penalties == (IF unverified THEN 1 ELSE 0) + (IF removed_claims THEN 1 ELSE 0)
        kept == RemoveContradictedClaimSentences(pruned, pool)
        contradicted == pool = "strong" /\ \E i \in DOMAIN pruned : pruned[i].kind = "contra"
        bonus_score == IF contradicted THEN Min(MaxScore, op.score + 1) ELSE op.score
        noted == IF contradicted THEN AppendNote(kept, "contradiction_note", 53) ELSE kept
        adjusted_score == IF penalties > 0 THEN PenalizedScore(bonus_score, penalties)
                          ELSE bonus_score
        disclosed == IF penalties > 0 THEN AppendNote(noted, "unverified_note", 50) ELSE noted
        argument == IF ArgLen(disclosed) < MinArgLen
                    THEN AppendNote(disclosed, "guard_note", 82)
                    ELSE disclosed
        filtered == SelectSeq(op.cited, IsCitationVerified)
        citations == IF filtered = <<>> THEN FallbackCitations(pool) ELSE filtered
    IN IF adjusted_score \in MinScore..MaxScore /\ ArgLen(argument) >= MinArgLen
       THEN [exc |-> NoException, op |-> Opinion(adjusted_score, argument, citations)]
       ELSE [exc |-> Raised("validation", "ValidationError", {}, 60), op |-> NoOpinion]

\* arguments of _ground_opinion: a StructuredOpinion (score in 1..5, argument of
\* at least 100 characters) and an evidence pool
StructuredOpinions ==
    {Opinion(s, a, c) : s \in MinScore..MaxScore,
                        a \in {b \in Arguments(MaxSentences) : ArgLen(b) >= MinArgLen},
                        c \in ProviderCitations}
NotGrounded == [exc |-> NoException, op |-> NoOpinion]
IdleGr == [pc |-> "idle", pool |-> "empty", input |-> NoOpinion,
           first |-> NotGrounded, second |-> NotGrounded]

\* opinion.score = min(opinion.score, 2)
CapScoreBySubtraction(score) == score - UnverifiedCap
CapScore(score) == Min(score, UnverifiedCap)

\* the except clause of render_opinion: the exceptions it catches
OnlyValidationCaught(exc) == IsValidationFailure(exc)
CaughtByRenderOpinion(exc) == exc.cls \in {"Exception", "ValidationError", "OutputParserException"}

\* the fallback opinion of the except clause
ErrorFallback(exc) ==
    Opinion(NeutralScore, <<Sent("error_note", 63 + exc.len)>>, <<"error">>)

\* the neutral opinion of a depleted provider quota
QuotaNeutral ==
    Opinion(NeutralScore, PadArgument(<<Sent("quota_note", 111)>>), <<"provider_quota_depleted">>)

\* a variant with one attempt more than configured
AttemptsOneMore(j) == Max(1, j.max_retries) + 1

\* attempts = max(1, self.config.max_retries)
Attempts(j) == Max(1, j.max_retries)

\* render_opinion returns the opinion
Returned(j, op, via, exc) ==
    [j EXCEPT !.pc = "returned", !.opinion = op, !.via = via, !.caught = exc.name]

\* an exception reaches the except clause of render_opinion
Handle(j, exc) ==
    IF CaughtByRenderOpinion(exc)
    THEN Returned(j, ErrorFallback(exc), "error_fallback", exc)
    ELSE [j EXCEPT !.pc = "raised", !.caught = exc.name]

\* render_opinion after _invoke_with_fallback has returned: grounding, the
\* conversion to JudicialOpinion, the cap of an opinion without verified evidence
Complete(j, op, via) ==
    LET grounded == GroundOpinion(op, j.pool)
        g == grounded.op
        unverified == g.cited = <<>> \/ g.cited = <<"insufficient_verified_evidence">>
    IN IF grounded.exc # NoException THEN Handle(j, grounded.exc)
       ELSE IF g.score \notin MinScore..MaxScore
       THEN Handle(j, Raised("validation", "ValidationError", {}, 60))
       ELSE IF unverified
       THEN Returned(j, Opinion(CapScore(g.score), AppendNote(g.argument, "cap_note", 36),
                                g.cited), via, NoException)
       ELSE Returned(j, g, via, NoException)

\* the except clauses of _invoke_with_fallback around the first retry sequence
Dispatch(j, exc) ==
    IF IsValidationFailure(exc)
    THEN [j EXCEPT !.seq = "validation_fallback", !.attempt = 0,
                   !.seqCalls = 0, !.seqWaits = 0]
    ELSE IF IsInsufficientQuota(exc)
    THEN Complete(j, QuotaNeutral, "quota_neutral")
    ELSE IF IsToolUseFailure(exc)
    THEN [j EXCEPT !.seq = IF j.force_json_mode THEN "tool_fallback" ELSE "tool_fallback_bare",
                   !.attempt = 0, !.seqCalls = 0, !.seqWaits = 0]
    ELSE Handle(j, exc)

\* an exception leaves a provider call or the coercion of its response
Propagate(j, exc) == IF j.seq = "primary" THEN Dispatch(j, exc) ELSE Handle(j, exc)

\* _invoke_with_rate_limit_retry: the exception of an attempt is swallowed
RetriesOnceMore(j, exc) ==
    /\ j.seq # "tool_fallback_bare"
    /\ IsRateLimitError(exc)
    /\ j.attempt # Attempts(j)
RetriesAfter(j, exc) ==
    /\ j.seq # "tool_fallback_bare"
    /\ IsRateLimitError(exc)
    /\ j.attempt # Attempts(j) - 1

\* how a sequence of provider calls ended: by a response or by an exception,
\* after how many calls and backoff waits
EndOfSequence(how, j, exc) ==
    [how |-> how, seq |-> j.seq, calls |-> j.seqCalls, waits |-> j.seqWaits, exc |-> exc]
NoSequenceEnded ==
    [how |-> "none", seq |-> "none", calls |-> 0, waits |-> 0, exc |-> NoException]

IdleJd ==
    [pc |-> "idle", force_json_mode |-> FALSE, pool |-> "empty", max_retries |-> 0,
     seq |-> "none", attempt |-> 0, calls |-> 0, waits |-> 0,
     seqCalls |-> 0, seqWaits |-> 0, swallowed |-> NoException, ended |-> NoSequenceEnded,
     opinion |-> NoOpinion, via |-> "none", caught |-> "none"]



(***************************************************************************)
(* The compiled graph run by graph.invoke: supersteps with a barrier.      *)
(***************************************************************************)
\* order in which the updates of one superstep are merged: by node name
NodesByName ==
    <<"aggregate_evidence", "chief_justice", "defense", "doc_analyst", "finalize",
      "handle_error", "initialize", "prosecutor", "repo_investigator", "tech_lead",
      "vision_inspector">>

RECURSIVE MergeAll(_, _, _)
\* merge the updates w[n] of the nodes of sequence ns, in that order, into st
MergeAll(st, ns, w) ==
    IF Len(ns) = 0 THEN st
    ELSE MergeAll(MergeUpdate(st, w[Head(ns)]), Tail(ns), w)

\* os.getenv("AUDITOR_FAIL_FAST", "true").lower() == "true"
ReadFailFast(e) == IF e = "false" THEN "false" ELSE "true"

\* the state a task is given: the channel values of the last barrier
NodeInputSeesPending(n) ==
    MergeAll(ch, SelectSeq(order, LAMBDA m : m \in finished \ failed), writes)
NodeInput(n) == ch

\* the order in which the barrier merges the updates of the finished tasks
WriteOrderByCompletion == order
WriteOrder == SelectSeq(NodesByName, LAMBDA n : n \in tasks)

\* the barrier: every task of the superstep has returned
BarrierAfterFirstTask == finished # {} /\ failed = {}
BarrierReady == tasks # {} /\ finished = tasks /\ failed = {}

\* nodes triggered by the tasks done: the targets of their edges
Triggered(done) == {m \in nodes : \E p \in done : <<p, m>> \in GraphEdges(nodes)}

NoResult == [returned |-> FALSE, state |-> InitialState]
IdleMrg == [pc |-> "idle", state |-> EmptyDict, update |-> EmptyDict, out |-> EmptyDict]

GInit ==
    /\ pc = "start"
    /\ env \in {"unset", "true", "false"}
    /\ FAIL_FAST = "unbound"
    /\ conf \in [entry : {"none"}, vision : BOOLEAN, rubricKind : {"object"}]
    /\ nodes = {}
    /\ ch = InitialState
    /\ tasks = {}
    /\ running = {}
    /\ finished = {}
    /\ failed = {}
    /\ order = <<>>
    /\ view = [n \in AllNodes |-> InitialState]
    /\ writes = [n \in AllNodes |-> NoUpdate]
    /\ outcome = [n \in AllNodes |-> NotRun]
    /\ execCount = [n \in AllNodes |-> 0]
    /\ merged = {}
    /\ result = NoResult
    /\ reordered = FALSE

\* graph.py is imported (main.py line 22, or the caller's import): FAIL_FAST is bound
ImportGraph ==
    /\ pc = "start"
    /\ pc' = "imported"
    /\ FAIL_FAST' = ReadFailFast(env)
    /\ UNCHANGED <<env, conf, nodes, ch, tasks, running, finished, failed, order, view,
                   writes, outcome, execCount, merged, result, reordered, mrg, jd, cj, gr, co, cx>>

\* _run_audit / triage_report: set the environment variable, then build the graph
RunAuditCLI ==
    /\ pc = "imported"
    /\ env' = "false"
    /\ conf' = [conf EXCEPT !.entry = "cli", !.rubricKind = "object"]
    /\ nodes' = GraphNodes(conf.vision)
    /\ pc' = "built"
    /\ UNCHANGED <<FAIL_FAST, ch, tasks, running, finished, failed, order, view,
                   writes, outcome, execCount, merged, result, reordered, mrg, jd, cj, gr, co, cx>>

\* a caller of the library builds the graph itself (tests, examples)
CreateGraphAPI ==
    /\ pc = "imported"
    /\ \E rk \in {"object", "mapping"} :
          conf' = [conf EXCEPT !.entry = "api", !.rubricKind = rk]
    /\ nodes' = GraphNodes(conf.vision)
    /\ pc' = "built"
    /\ UNCHANGED <<env, FAIL_FAST, ch, tasks, running, finished, failed, order, view,
                   writes, outcome, execCount, merged, result, reordered, mrg, jd, cj, gr, co, cx>>

\* graph.invoke(initial_state): the input is written and the entry point scheduled
Invoke ==
    /\ pc = "built"
    /\ pc' = "running"
    /\ ch' = InitialState
    /\ tasks' = {"initialize"}
    /\ UNCHANGED <<env, FAIL_FAST, conf, nodes, running, finished, failed, order, view,
                   writes, outcome, execCount, merged, result, reordered, mrg, jd, cj, gr, co, cx>>

\* a scheduled task starts on its thread with the state of the last barrier
StartNode(n) ==
    /\ pc = "running"
    /\ n \in tasks \ (running \cup finished)
    /\ running' = running \cup {n}
    /\ view' = [view EXCEPT ![n] = NodeInput(n)]
    /\ execCount' = [execCount EXCEPT ![n] = @ + 1]
    /\ UNCHANGED <<pc, env, FAIL_FAST, conf, nodes, ch, tasks, finished, failed, order,
                   writes, outcome, merged, result, reordered, mrg, jd, cj, gr, co, cx>>

\* a running task returns its update, or raises
FinishNode(n) ==
    /\ pc = "running"
    /\ n \in running
    /\ \E o \in OutcomeChoices(n, conf.rubricKind) :
          LET r == SafeNode(n, view[n], o, FAIL_FAST = "true")
          IN  /\ outcome' = [outcome EXCEPT ![n] = o]
              /\ writes' = [writes EXCEPT ![n] = r.upd]
              /\ failed' = IF r.raised THEN failed \cup {n} ELSE failed
    /\ running' = running \ {n}
    /\ finished' = finished \cup {n}
    /\ order' = Append(order, n)
    /\ UNCHANGED <<pc, env, FAIL_FAST, conf, nodes, ch, tasks, view, execCount, merged,
                   result, reordered, mrg, jd, cj, gr, co, cx>>

\* the exception of a task leaves graph.invoke: the run is over without a result
Abort ==
    /\ pc = "running"
    /\ failed # {}
    /\ pc' = "aborted"
    /\ UNCHANGED <<env, FAIL_FAST, conf, nodes, ch, tasks, running, finished, failed, order,
                   view, writes, outcome, execCount, merged, result, reordered, mrg, jd, cj, gr, co, cx>>

\* the barrier: merge the updates of the superstep, schedule the triggered nodes;
\* with nothing triggered the run ends and graph.invoke returns the state
ApplyWrites ==
    /\ pc = "running"
    /\ BarrierReady
    /\ LET st == MergeAll(ch, SelectSeq(WriteOrder, LAMBDA n : n \in finished), writes)
           next == Triggered(finished)
       IN  /\ ch' = st
           /\ merged' = merged \cup finished
           /\ tasks' = next
           /\ pc' = IF next = {} THEN "done" ELSE "running"
           /\ result' = IF next = {} THEN [returned |-> TRUE, state |-> st] ELSE result
    /\ finished' = {}
    /\ order' = <<>>
    /\ reordered' = (reordered \/ order # SelectSeq(WriteOrder, LAMBDA n : n \in finished))
    /\ UNCHANGED <<env, FAIL_FAST, conf, nodes, running, failed, view, writes, outcome,
                   execCount, mrg, jd, cj, gr, co, cx>>

Next ==
    \/ ImportGraph
    \/ RunAuditCLI
    \/ CreateGraphAPI
    \/ Invoke
    \/ \E n \in AllNodes : StartNode(n)
    \/ \E n \in AllNodes : FinishNode(n)
    \/ Abort
    \/ ApplyWrites

Init == GInit /\ mrg = IdleMrg /\ jd = IdleJd /\ cj = IdleCj /\ gr = IdleGr /\ co = IdleCo /\ cx = IdleCx

Spec == Init /\ [][Next]_vars


(***************************************************************************)
(* Claims about the graph run.                                             *)
(***************************************************************************)
\* the detectives of the run, and the evidences key each one writes
EnabledDetectives ==
    {"repo_investigator", "doc_analyst"} \cup (IF conf.vision THEN {"vision_inspector"} ELSE {})
ProducerOf(d) ==
    CASE d = "repo_investigator" -> "RepoInvestigator"
      [] d = "doc_analyst" -> "DocAnalyst"
      [] d = "vision_inspector" -> "VisionInspector"

\* the predecessors the topology of the specification gives each node
StatedPredecessors(n) ==
    CASE n = "initialize" -> {}
      [] n \in Detectives -> {"initialize"}
      [] n = "aggregate_evidence" -> EnabledDetectives
      [] n \in Judges -> {"aggregate_evidence"}
      [] n = "handle_error" -> Judges
      [] n = "chief_justice" -> {"handle_error"}
      [] n = "finalize" -> {"chief_justice"}

\* position of a node in initialize -> detectives -> aggregate -> judges -> ... -> finalize
Layer(n) ==
    CASE n = "initialize" -> 0
      [] n \in Detectives -> 1
      [] n = "aggregate_evidence" -> 2
      [] n \in Judges -> 3
      [] n = "handle_error" -> 4
      [] n = "chief_justice" -> 5
      [] n = "finalize" -> 6

RaisedNodes == {n \in Wrapped : outcome[n].oc \notin {"none", "ok"}}

\* C1: a node runs only once all its predecessors have completed and their updates
\* are merged; aggregate_evidence (the CrossReference pass) never runs while a
\* detective runs and sees every enabled detective's key; no node runs twice.
C1_NodeStartsAfterPredecessors ==
    /\ \A n \in running :
          /\ StatedPredecessors(n) \subseteq merged
          /\ StatedPredecessors(n) \cap (running \cup finished) = {}
    /\ "aggregate_evidence" \in running =>
          /\ running \cap Detectives = {}
          /\ \A d \in EnabledDetectives :
                ProducerOf(d) \in DictKeys(view["aggregate_evidence"].evidences)
    /\ \A n \in AllNodes : execCount[n] <= 1
    /\ \A n \in AllNodes \ nodes : pc # "start" /\ pc # "imported" => execCount[n] = 0

\* C1 witness: a run with the vision inspector completed, every node having run once
C1_Witness ==
    /\ pc = "done"
    /\ conf.vision
    /\ \A n \in AllNodes : execCount[n] = 1

\* C2: in fail-fast mode a raising wrapped node ends the run with its exception:
\* no node of a later layer is ever started and graph.invoke returns no state
\* (hence no final_scores).
C2_FailFastAborts ==
    (FAIL_FAST = "true" /\ RaisedNodes # {}) =>
        /\ pc \in {"running", "aborted"}
        /\ failed # {}
        /\ ~ result.returned
        /\ \A n \in RaisedNodes : \A m \in AllNodes : Layer(m) > Layer(n) => execCount[m] = 0

\* C2 witness: a judge raised in fail-fast mode and the run was aborted
C2_Witness ==
    /\ pc = "aborted"
    /\ FAIL_FAST = "true"
    /\ outcome["defense"].oc = "raise"

\* C3: in resilient mode the update of a raising wrapped node is its declared empty
\* update plus one errors entry <node>: <message>; the run is never aborted, can always
\* go on, and ends after finalize with every node run and errors non-empty.
C3_ResilientDowngrade ==
    FAIL_FAST = "false" =>
        /\ \A n \in RaisedNodes :
              /\ writes[n].keys = EmptyUpdates(n).keys \cup {"errors"}
              /\ writes[n].errors = <<[node |-> NodeName(n), message |-> outcome[n].oc]>>
              /\ [writes[n] EXCEPT !.keys = {}, !.errors = <<>>]
                    = [EmptyUpdates(n) EXCEPT !.keys = {}, !.errors = <<>>]
        /\ pc # "aborted" /\ failed = {}
        /\ pc = "running" => ENABLED Next
        /\ (pc = "done" /\ RaisedNodes # {}) =>
              /\ \A n \in nodes : execCount[n] = 1
              /\ "finalize" \in merged
              /\ result.returned
              /\ Len(result.state.errors) > 0

\* C3 witness: a resilient run in which a detective raised has returned
C3_Witness ==
    /\ pc = "done"
    /\ FAIL_FAST = "false"
    /\ outcome["repo_investigator"].oc = "raise"
    /\ Len(result.state.errors) > 0

\* C4 (as stated): a run started by the CLI runner, which sets AUDITOR_FAIL_FAST=false
\* before it builds the graph, is resilient: a node exception is recorded in errors
\* and never aborts the run.
C4_CliRunIsResilient ==
    conf.entry = "cli" =>
        /\ pc # "aborted"
        /\ failed = {}
        /\ \A n \in RaisedNodes : "errors" \in writes[n].keys

\* C5 (as stated): a security violation in a node aborts the run in either mode;
\* it is never turned into an errors entry with empty evidence that lets the
\* run continue.
C5_SecurityViolationAborts ==
    outcome["repo_investigator"].oc = "security" =>
        /\ "repo_investigator" \in failed
        /\ "errors" \notin writes["repo_investigator"].keys
        /\ execCount["aggregate_evidence"] = 0
        /\ pc # "done"

\* C6: a node is never given an update of a sibling of its layer: a detective sees
\* no evidences key, a judge sees no opinion; the next layer sees them merged.
C6_SiblingsIsolated ==
    /\ \A d \in Detectives : execCount[d] > 0 => DictKeys(view[d].evidences) = {}
    /\ \A j \in Judges : execCount[j] > 0 => Len(view[j].opinions) = 0
    /\ execCount["aggregate_evidence"] > 0 =>
          {ProducerOf(d) : d \in EnabledDetectives} \subseteq
              DictKeys(view["aggregate_evidence"].evidences)
    /\ execCount["handle_error"] > 0 =>
          Len(view["handle_error"].opinions)
              = NumDims * Cardinality({j \in Judges : outcome[j].oc = "ok"})

\* C6 witness: doc_analyst started while repo_investigator's update was pending
C6_Witness ==
    /\ "repo_investigator" \in finished
    /\ outcome["repo_investigator"].oc = "ok"
    /\ "doc_analyst" \in running
    /\ order = <<"repo_investigator">>

\* the run computed layer by layer, each layer's nodes in name order on the state
\* before the layer, from what the environment made each node do
ReferenceLayers ==
    <<{"initialize"}, Detectives, {"aggregate_evidence"}, Judges, {"handle_error"},
      {"chief_justice"}, {"finalize"}>>
RECURSIVE ReferenceRun(_, _)
ReferenceRun(st, i) ==
    IF i > Len(ReferenceLayers) THEN st
    ELSE LET layer == SelectSeq(NodesByName, LAMBDA n : n \in ReferenceLayers[i] \cap nodes)
             w == [n \in AllNodes |-> SafeNode(n, st, outcome[n], FAIL_FAST = "true").upd]
         IN  ReferenceRun(MergeAll(st, layer, w), i + 1)

EvidenceItems == {"e1", "e2"}

RECURSIVE ItemLists(_)
ItemLists(n) ==
    IF n = 0 THEN {<<>>}
    ELSE LET shorter == ItemLists(n - 1)
         IN shorter \cup {Append(l, x) : l \in {m \in shorter : Len(m) = n - 1}, x \in EvidenceItems}

\* the producers whose nodes write in these runs
MergeKeys == {"RepoInvestigator", "DocAnalyst"}

\* the dicts a node returns under "evidences": no key (initialize_node), or the one
\* key of the node with its list of evidence
EvidenceUpdates ==
    {EmptyDict} \cup
    {[EmptyDict EXCEPT ![k] = Entry(l)] : k \in MergeKeys, l \in ItemLists(MaxItems)}

\* one more partial update {"evidences": u} is merged into the state
MergeEvidences ==
    /\ mrg.pc \in {"idle", "merged"}
    /\ \E u \in EvidenceUpdates :
          LET st == [InitialState EXCEPT !.evidences = mrg.out]
              upd == [NoUpdate EXCEPT !.keys = {"evidences"}, !.evidences = u]
          IN mrg' = [pc |-> "merged",
                     state |-> mrg.out,
                     update |-> u,
                     out |-> MergeUpdate(st, upd).evidences]
    /\ UNCHANGED <<gvars, jd, cj, gr, co, cx>>

MergeNext == MergeEvidences

SpecMerge == Init /\ [][MergeNext]_vars

ItemsOf(l) == {l[i] : i \in DOMAIN l}

\* C8 (as stated): merging an evidences update maps every producer key to the
\* concatenation of the stored list and the update's list (keys on one side only
\* are kept unchanged), and no stored item is dropped when the update holds a key
\* that is already present.
C8_MergeConcatenatesPerKey ==
    mrg.pc = "merged" =>
        \A k \in Producers :
            /\ mrg.out[k] =
                  IF mrg.state[k].present /\ mrg.update[k].present
                  THEN Entry(mrg.state[k].items \o mrg.update[k].items)
                  ELSE IF mrg.update[k].present THEN mrg.update[k] ELSE mrg.state[k]
            /\ ItemsOf(mrg.state[k].items) \subseteq ItemsOf(mrg.out[k].items)

\* C8 (amended): the merged mapping holds the union of the keys; a key of the
\* update maps to the update's list, which replaces the list stored for that key;
\* a key of the state alone keeps its list; so no stored item is dropped as long
\* as the update's keys are not yet present.
C8_MergeReplacesPerKey ==
    mrg.pc = "merged" =>
        /\ DictKeys(mrg.out) = DictKeys(mrg.state) \cup DictKeys(mrg.update)
        /\ \A k \in DictKeys(mrg.update) : mrg.out[k].items = mrg.update[k].items
        /\ \A k \in DictKeys(mrg.state) \ DictKeys(mrg.update) :
              mrg.out[k].items = mrg.state[k].items
        /\ DictKeys(mrg.state) \cap DictKeys(mrg.update) = {} =>
              \A k \in Producers :
                  ItemsOf(mrg.state[k].items) \subseteq ItemsOf(mrg.out[k].items)

C8_Witness ==
    /\ mrg.pc = "merged"
    /\ \E k \in DictKeys(mrg.state) \cap DictKeys(mrg.update) :
          /\ mrg.state[k].items # <<>>
          /\ mrg.update[k].items # <<>>
          /\ ~(ItemsOf(mrg.state[k].items) \subseteq ItemsOf(mrg.update[k].items))
    /\ \E k \in DictKeys(mrg.state) \ DictKeys(mrg.update) : mrg.state[k].items # <<>>

(***************************************************************************)
(* render_opinion as a state machine: one step per provider call.          *)
(***************************************************************************)
\* a judge calls render_opinion(criterion, evidences)
RenderOpinion ==
    /\ jd.pc = "idle"
    /\ \E mode \in BOOLEAN, pool \in EvidencePools, retries \in 0..MaxRetries :
          jd' = [jd EXCEPT !.pc = "calling", !.force_json_mode = mode, !.pool = pool,
                           !.max_retries = retries, !.seq = "primary"]
    /\ UNCHANGED <<gvars, mrg, cj, gr, co, cx>>

\* the provider call returns a response
LlmReturns ==
    /\ jd.pc = "calling"
    /\ \E response \in Responses :
          LET called == [jd EXCEPT !.calls = @ + 1, !.seqCalls = @ + 1]
              j == [called EXCEPT !.ended = EndOfSequence("returned", called, NoException)]
              coerced == CoerceStructuredResponse(response)
          IN jd' = IF coerced.exc # NoException
                   THEN Propagate(j, coerced.exc)
                   ELSE Complete(j, coerced.op, "normal")
    /\ UNCHANGED <<gvars, mrg, cj, gr, co, cx>>

\* the provider call raises
LlmRaises ==
    /\ jd.pc = "calling"
    /\ \E exc \in ProviderExceptions :
          LET j == [jd EXCEPT !.calls = @ + 1, !.seqCalls = @ + 1]
          IN jd' = IF RetriesAfter(j, exc)
                   THEN [j EXCEPT !.attempt = @ + 1, !.waits = @ + 1, !.seqWaits = @ + 1,
                                  !.swallowed = exc]
                   ELSE Propagate([j EXCEPT !.ended = EndOfSequence("raised", j, exc)], exc)
    /\ UNCHANGED <<gvars, mrg, cj, gr, co, cx>>

JudgeNext ==
    \/ RenderOpinion
    \/ LlmReturns
    \/ LlmRaises

\* the call reads neither the environment nor the graph: both are held fixed
JudgeInit == Init /\ env = "unset" /\ ~conf.vision

SpecJudge == JudgeInit /\ [][JudgeNext]_vars

\* C9: render_opinion returns an opinion whatever the provider returns or raises
\* at any attempt: no exception leaves it, a call in progress can always go on,
\* and once an exception has reached its except clause the opinion returned is
\* the neutral one, score 3 with cited_evidence = ["error"].
C9_RenderOpinionNeverRaises ==
    /\ jd.pc # "raised"
    /\ jd.pc = "calling" => ENABLED JudgeNext
    /\ jd.pc = "returned" => jd.opinion # NoOpinion
    /\ (jd.pc = "returned" /\ jd.caught # "none") =>
          /\ jd.opinion.score = 3
          /\ jd.opinion.cited = <<"error">>

C9_Witness ==
    /\ jd.pc = "returned"
    /\ jd.caught = "timeout"
    /\ jd.seq = "validation_fallback"
    /\ jd.calls >= 2
    /\ jd.opinion.cited = <<"error">>

\* C10: every opinion render_opinion returns, by whichever path (normal, grounded,
\* capped for lack of verified evidence, quota-neutral, malformed-output neutral,
\* error fallback), has a score between 1 and 5.
C10_ScoreInRange ==
    jd.pc = "returned" => (jd.opinion.score >= 1 /\ jd.opinion.score <= 5)

C10_Witness ==
    /\ jd.pc = "returned"
    /\ jd.via = "normal"
    /\ jd.opinion.score = 1
    /\ \E i \in DOMAIN jd.opinion.argument : jd.opinion.argument[i].kind = "unverified_note"
    /\ \E i \in DOMAIN jd.opinion.argument : jd.opinion.argument[i].kind = "cap_note"
    /\ jd.opinion.cited = <<"insufficient_verified_evidence">>

\* C11: every opinion render_opinion returns has an argument of at least 100
\* characters, on every path, the error fallback opinion and the quota-neutral
\* opinion included.
C11_ArgumentAtLeast100 ==
    jd.pc = "returned" => ArgLen(jd.opinion.argument) >= MinArgLen

\* C12: every opinion render_opinion returns has a non-empty cited_evidence list,
\* for every response variant (an already-typed response with an empty citation
\* list included) and every evidence pool (an empty one included): when no
\* citation survives, a sentinel or a fallback citation stands in.
C12_CitedEvidenceNonEmpty ==
    jd.pc = "returned" => jd.opinion.cited # <<>>

\* C13: one retry sequence of _invoke_with_rate_limit_retry, N = max(1, max_retries).
\* Calls are made one after the other, each retry after one backoff wait. A
\* sequence that ends with a response after k rate-limit failures has made k + 1
\* calls and k waits, with k < N, and the response is what the sequence returns;
\* a sequence that ends with a rate-limit error has made exactly N calls; an
\* error that is no rate-limit error ends the sequence at the call that raised it.
C13_RetrySequenceCounts ==
    LET N == Attempts(jd)
        e == jd.ended
        retrying == e.seq \in {"primary", "validation_fallback", "tool_fallback"}
    IN /\ jd.pc = "calling" =>
             /\ jd.attempt < N
             /\ jd.seqCalls = jd.attempt
             /\ jd.seqWaits = jd.attempt
             /\ jd.seq # "tool_fallback_bare" => jd.seqCalls < N
       /\ (e.how = "returned" /\ retrying) =>
             /\ e.calls = e.waits + 1
             /\ e.calls <= N
             /\ jd.pc = "returned"
             /\ jd.seq = e.seq
       /\ (e.how = "raised" /\ retrying /\ IsRateLimitError(e.exc)) =>
             /\ e.calls = N
             /\ e.waits = N - 1
       /\ jd.swallowed = NoException \/ IsRateLimitError(jd.swallowed)
       /\ (e.how = "raised" /\ retrying /\ ~IsRateLimitError(e.exc)) =>
             /\ e.calls = e.waits + 1
             /\ e.calls <= N

C13_Witness ==
    /\ jd.ended.how = "returned"
    /\ jd.ended.seq = "validation_fallback"
    /\ jd.ended.calls = 2
    /\ jd.ended.waits = 1
    /\ jd.max_retries = 2
    /\ jd.via = "normal"

\* the request of a provider call: the client invoked and the messages given
\* (self.llm is self.raw_llm in force_json_mode)
RequestOf(force_json_mode, seq) ==
    IF force_json_mode
    THEN [llm |-> "raw_llm", prompt |-> "json_prompt"]
    ELSE IF seq = "primary"
    THEN [llm |-> "structured_llm", prompt |-> "messages"]
    ELSE [llm |-> "raw_llm", prompt |-> "messages_and_json_instruction"]

\* C14: when a provider call fails with a validation or malformed-output error,
\* the provider is not called again with the same request, in structured-output
\* mode and in JSON-only mode alike: the failure goes to coercion or to a
\* neutral opinion.
C14_NoSecondCallAfterValidationFailure ==
    (jd.seq = "validation_fallback" /\ jd.seqCalls > 0) =>
        RequestOf(jd.force_json_mode, jd.seq) # RequestOf(jd.force_json_mode, "primary")

\* C15: when a provider call fails with a quota-exhaustion error (insufficient_quota,
\* quota, 402, payment required in its message), the neutral opinion is returned
\* after that single call: no retry is made and no backoff wait happens.
C15_QuotaErrorNotRetried ==
    /\ ~IsInsufficientQuota(jd.swallowed)
    /\ (jd.pc = "returned" /\ jd.ended.how = "raised" /\ jd.ended.seq = "primary"
            /\ IsInsufficientQuota(jd.ended.exc) /\ ~IsValidationFailure(jd.ended.exc)) =>
          jd.via = "quota_neutral"

(***************************************************************************)
(* _resolve_criterion applied to arbitrary arguments.                      *)
(***************************************************************************)
ResolveCriterionCall ==
    /\ cj.pc = "idle"
    /\ \E ops \in CriterionOpinions, rules \in SynthesisRules, missing \in BOOLEAN :
          cj' = [IdleCj EXCEPT !.pc = "resolved", !.ops = ops, !.rules = rules,
                               !.missing = missing,
                               !.out = ResolveCriterion(ops, rules, missing)]
    /\ UNCHANGED <<gvars, mrg, jd, gr, co, cx>>

SynthesizeCall ==
    /\ cj.pc = "idle"
    /\ \E opinions \in OpinionLists, rules \in SUBSET RubricRules, evidences \in SynthEvidences :
          LET raised == SynthesizeRaises(opinions)
          IN  cj' = [IdleCj EXCEPT !.pc = "synthesized", !.ops = opinions, !.rules = rules,
                                   !.evidences = evidences, !.raised = raised,
                                   !.scores = IF raised THEN NoScores
                                              ELSE SynthesizeScores(opinions, evidences, rules)]
    /\ UNCHANGED <<gvars, mrg, jd, gr, co, cx>>

ResolveNext == ResolveCriterionCall \/ SynthesizeCall

ResolveInit == Init /\ env = "unset" /\ ~conf.vision

SpecResolve == ResolveInit /\ [][ResolveNext]_vars

\* C16: whatever the Defense and TechLead opinions, the synthesis rules and the
\* missing-artifact flag are, when the Prosecutor's opinion has score 1 and its
\* argument mentions "security", _resolve_criterion returns a score of at most 3
\* with the note of the security rule, and neither the variance blend nor a
\* missing-artifact cap is applied.
C16_SecurityOverride ==
    (/\ cj.pc = "resolved"
     /\ \E i \in 1..Len(cj.ops) :
           cj.ops[i].judge = "Prosecutor" /\ cj.ops[i].score = 1 /\ cj.ops[i].security)
    => /\ cj.out.score <= 3
       /\ cj.out.rule = "security"
       /\ ~cj.out.capped

\* the override fires against two top scores, with every rule active and the artifact missing
C16_Witness ==
    /\ cj.pc = "resolved"
    /\ cj.ops = <<OpinionOf("Prosecutor", 1, TRUE), OpinionOf("Defense", 5, FALSE),
                  OpinionOf("TechLead", 5, FALSE)>>
    /\ cj.rules = RuleKeys
    /\ cj.missing
    /\ cj.out = [score |-> 3, rule |-> "security", capped |-> FALSE]

\* r is an integer nearest to the rational n/d (either neighbour at a tie)
IsNearest(r, n, d) == 2 * r * d - 2 * n <= d /\ 2 * n - 2 * r * d <= d

\* the score of a judge in a list of opinions, 3 for a judge without opinion
ScoreOrNeutral(ops, judge) ==
    IF \E i \in 1..Len(ops) : ops[i].judge = judge
    THEN (CHOOSE s \in 1..5 : \E i \in 1..Len(ops) : ops[i].judge = judge /\ ops[i].score = s)
    ELSE 3

\* C17: when the security override does not fire and no missing-artifact cap
\* applies, with P, D, T the judges' scores (3 for a judge without opinion):
\* if max - min > 2 the result is 0.4P + 0.2D + 0.4T rounded to a nearest
\* integer, capped at 3 when P <= 2; otherwise it is 0.25P + 0.25D + 0.5T
\* rounded to a nearest integer.
C17_VarianceBlend ==
    LET P == ScoreOrNeutral(cj.ops, "Prosecutor")
        D == ScoreOrNeutral(cj.ops, "Defense")
        T == ScoreOrNeutral(cj.ops, "TechLead")
        hi == CHOOSE x \in {P, D, T} : \A y \in {P, D, T} : y <= x
        lo == CHOOSE x \in {P, D, T} : \A y \in {P, D, T} : x <= y
        noCap == ~cj.missing \/ cj.rules \cap {"missing_vision_cap", "high_variance_missing_evidence"} = {}
    IN  (cj.pc = "resolved" /\ cj.out.rule # "security" /\ noCap)
        => IF hi - lo > 2
           THEN \E r \in 0..6 : /\ IsNearest(r, 4 * P + 2 * D + 4 * T, 10)
                                /\ cj.out.score = (IF P <= 2 /\ r > 3 THEN 3 ELSE r)
           ELSE \E r \in 0..6 : /\ IsNearest(r, P + D + 2 * T, 4)
                                /\ cj.out.score = r

\* scores 3, 4, 4 take the weighted average: 3.75 gives 4
C17_Witness ==
    /\ cj.pc = "resolved"
    /\ cj.ops = <<OpinionOf("Prosecutor", 3, FALSE), OpinionOf("Defense", 4, FALSE),
                  OpinionOf("TechLead", 4, FALSE)>>
    /\ ~cj.missing
    /\ cj.out = [score |-> 4, rule |-> "moderate", capped |-> FALSE]

\* the result when no policy rule is applied: the blend of the three scores,
\* or the score 3 of a criterion without opinions
Unruled(ops) ==
    LET P == ScoreOrNeutral(ops, "Prosecutor")
        D == ScoreOrNeutral(ops, "Defense")
        T == ScoreOrNeutral(ops, "TechLead")
        hi == CHOOSE x \in {P, D, T} : \A y \in {P, D, T} : y <= x
        lo == CHOOSE x \in {P, D, T} : \A y \in {P, D, T} : x <= y
        blend == RoundHalfEven(4 * P + 2 * D + 4 * T, 10)
    IN  IF hi - lo > 2 THEN (IF P <= 2 /\ blend > 3 THEN 3 ELSE blend)
        ELSE RoundHalfEven(P + D + 2 * T, 4)

\* C19: a policy rule whose key is absent from synthesis_rules has no effect.
\* Without security_override the security cap is not applied, without
\* missing_vision_cap the cap at 4 is not applied, without
\* high_variance_missing_evidence the cap at 3 is not applied, and a key other
\* than these three never changes the result.
C19_AbsentRuleInactive ==
    cj.pc = "resolved" =>
       /\ "security_override" \notin cj.rules => cj.out.rule # "security"
       /\ "high_variance_missing_evidence" \notin cj.rules => ~cj.out.capped
       /\ (cj.rules \cap RubricRules = {}) => cj.out.score = Unruled(cj.ops)
       /\ ("missing_vision_cap" \notin cj.rules /\ cj.out.rule # "security" /\ ~cj.out.capped)
             => cj.out.score = Unruled(cj.ops)
       /\ cj.out = ResolveCriterion(cj.ops, cj.rules \ {"report_style"}, cj.missing)

\* C18: for any opinions list and any synthesis rules, synthesize completes
\* without raising, and final_scores holds one score in 1..5 for each rubric
\* dimension, the score 3 for a dimension without opinions.
C18_SynthesizeTotal ==
    cj.pc = "synthesized" =>
       /\ ~cj.raised
       /\ DOMAIN cj.scores = Dims
       /\ \A d \in Dims :
             /\ cj.scores[d] \in 1..5
             /\ (\A i \in 1..Len(cj.ops) : cj.ops[i].criterion_id # d) => cj.scores[d] = 3

\* two Defense opinions and no Prosecutor opinion on the first dimension, none on the second
C18_Witness ==
    /\ cj.pc = "synthesized"
    /\ Len(cj.ops) = 2
    /\ \A i \in 1..2 : cj.ops[i].judge = "Defense" /\ cj.ops[i].criterion_id = 1
    /\ cj.ops[1].score = 5 /\ cj.ops[2].score = 1
    /\ cj.scores[1] = 4
    /\ cj.scores[2] = 3
    /\ ~cj.raised

(***************************************************************************)
(* _ground_opinion applied to an opinion, then to its own output.          *)
(***************************************************************************)
GroundOpinionCall ==
    /\ gr.pc = "idle"
    /\ \E op \in StructuredOpinions, pool \in EvidencePools :
          gr' = [IdleGr EXCEPT !.pc = "grounded", !.pool = pool, !.input = op,
                               !.first = GroundOpinion(op, pool)]
    /\ UNCHANGED <<gvars, mrg, jd, cj, co, cx>>

GroundOpinionAgain ==
    /\ gr.pc = "grounded"
    /\ gr.first.exc = NoException
    /\ gr' = [gr EXCEPT !.pc = "regrounded", !.second = GroundOpinion(gr.first.op, gr.pool)]
    /\ UNCHANGED <<gvars, mrg, jd, cj, co, cx>>

GroundNext == GroundOpinionCall \/ GroundOpinionAgain

GroundInit == Init /\ env = "unset" /\ ~conf.vision

SpecGround == GroundInit /\ [][GroundNext]_vars

\* C20: grounding is idempotent. Applying _ground_opinion to its own output,
\* with the same evidence, returns the same score, the same argument and the
\* same cited_evidence.
C20_GroundingIdempotent ==
    gr.pc = "regrounded" => gr.second = gr.first

\* C21: after grounding, every entry of cited_evidence is a provider citation
\* that matches a known evidence location or a top-confidence evidence location
\* substituted as fallback; a citation that matches no known location never
\* survives; with an empty evidence pool the list is exactly the sentinel
\* insufficient_verified_evidence.
C21_CitationsGrounded ==
    gr.pc = "grounded" =>
       LET cited == gr.first.op.cited
       IN  /\ \A i \in DOMAIN cited :
                \/ IsCitationVerified(cited[i])
                \/ cited[i] = "top_location" /\ gr.pool \in {"located", "strong"}
                \/ cited = <<"insufficient_verified_evidence">>
           /\ \A i \in DOMAIN cited : cited[i] # "unknown"
           /\ gr.pool = "empty" => cited = <<"insufficient_verified_evidence">>

\* whether an argument holds a sentence of the given kind
HasSentence(a, kind) == \E i \in DOMAIN a : a[i].kind = kind

NoTargetEvidence(d, ev) ==
    \A k \in (IF TargetOf(d) = "github_repo" THEN {"RepoInvestigator"}
              ELSE {"DocAnalyst", "VisionInspector", "CrossReference"}) :
        DictGet(ev, k) = <<>>

\* max - min of the three judges' scores on dimension d exceeds 2
HighVariance(ops, d) ==
    LET mine == SelectSeq(ops, LAMBDA o : o.criterion_id = d)
        scores == {JudgeScore(mine, j) : j \in {"Prosecutor", "Defense", "TechLead"}}
    IN  \E hi \in scores, lo \in scores : hi - lo > 2

\* C23: when no evidence list of the criterion's target artifact is non-empty
\* (the empty list of a failed detective included) and missing_vision_cap is
\* set, the final score is at most 4; when in addition max - min > 2 and
\* high_variance_missing_evidence is set, it is at most 3; when some evidence
\* of the target exists, neither cap changes the score.
C23_MissingArtifactCaps ==
    cj.pc = "synthesized" =>
       \A d \in Dims :
          LET mine == SelectSeq(cj.ops, LAMBDA o : o.criterion_id = d)
          IN  /\ (NoTargetEvidence(d, cj.evidences) /\ "missing_vision_cap" \in cj.rules)
                    => cj.scores[d] <= 4
              /\ (/\ NoTargetEvidence(d, cj.evidences)
                  /\ HighVariance(cj.ops, d)
                  /\ "high_variance_missing_evidence" \in cj.rules)
                    => cj.scores[d] <= 3
              /\ ~NoTargetEvidence(d, cj.evidences)
                    => cj.scores[d] = ResolveCriterion(mine, {}, FALSE).score

\* three top scores on the repository dimension, whose detective left an empty list
C23_Witness ==
    /\ cj.pc = "synthesized"
    /\ cj.evidences["RepoInvestigator"] = Entry(<<>>)
    /\ cj.rules = {"missing_vision_cap"}
    /\ Len(cj.ops) = 3
    /\ \A i \in 1..3 : cj.ops[i].criterion_id = 1 /\ cj.ops[i].score = 5
    /\ {cj.ops[i].judge : i \in 1..3} = {"Prosecutor", "Defense", "TechLead"}
    /\ cj.scores[1] = 4

\* C24: a provider call that fails with a timeout error is retried with
\* backoff like a rate-limit error: the retry sequence gives the error up only
\* after max(1, max_retries) calls and one wait less.
C24_TimeoutRetried ==
    (jd.ended.how = "raised" /\ jd.ended.exc.name = "timeout")
       => jd.ended.calls = Attempts(jd) /\ jd.ended.waits = Attempts(jd) - 1

(***************************************************************************)
(* _coerce_structured_response applied to every response variant.          *)
(***************************************************************************)
CoerceCall ==
    /\ co.pc = "idle"
    /\ \E response \in Responses :
          co' = [pc |-> "coerced", response |-> response,
                 out |-> CoerceStructuredResponse(response)]
    /\ UNCHANGED <<gvars, mrg, jd, cj, gr, cx>>

CoerceNext == CoerceCall

CoerceInit == Init /\ env = "unset" /\ ~conf.vision

SpecCoerce == CoerceInit /\ [][CoerceNext]_vars

\* a payload whose fields, after the coercions of strings, pydantic rejects
FailsValidation(payload) ==
    \/ payload.score.k = "other"
    \/ payload.score.k \in {"int", "numeric_str"} /\ payload.score.v \notin 1..5
    \/ payload.argument.k = "other"
    \/ payload.argument.k = "str" /\ ArgLen(payload.argument.a) < 100
    \/ payload.cited_evidence.k = "other"

\* C25: _coerce_structured_response returns a valid StructuredOpinion and
\* never raises, for typed objects, mappings with or without the required
\* keys, text holding a JSON object, text that is JSON but no object, non-JSON
\* text and empty text. Text without a parsable JSON object yields score 3
\* with the padded raw text and the citation fallback_evidence; a payload that
\* fails validation yields score 3 with the citation malformed_output.
C25_CoercionTotal ==
    co.pc = "coerced" =>
       LET r == co.response
           op == co.out.op
       IN  /\ co.out.exc = NoException
           /\ op.score \in 1..5
           /\ ArgLen(op.argument) >= 100
           /\ r.shape \in {"json_non_object_text", "plain_text", "empty_text"}
                 => /\ op.score = 3
                    /\ op.cited = <<"fallback_evidence">>
                    /\ r.shape = "plain_text" => SubSeq(op.argument, 1, Len(r.text)) = r.text
           /\ (/\ r.shape = "json_object_text" \/ (r.shape = "mapping" /\ HasExpectedKeys(r.payload))
               /\ FailsValidation(r.payload))
                 => op.score = 3 /\ op.cited = <<"malformed_output">>

\* C26: handle_error leaves the errors list unchanged. At the end of a
\* resilient run errors holds exactly one entry per wrapped node that raised,
\* none of them duplicated by the error-collection node.
C26_ErrorsOnePerFailedNode ==
    (pc = "done" /\ FAIL_FAST = "false" /\ result.returned) =>
        /\ Len(result.state.errors) = Cardinality(RaisedNodes)
        /\ \A i, j \in 1..Len(result.state.errors) :
              result.state.errors[i] = result.state.errors[j] => i = j
        /\ {result.state.errors[i].node : i \in 1..Len(result.state.errors)}
              = {NodeName(n) : n \in RaisedNodes}

\* C27: in a run in which the provider fails no judge node, each of the three
\* judge nodes appends exactly one opinion per rubric dimension, whether the
\* rubric of the state is a RubricConfig object or a plain mapping: synthesis
\* is given exactly one opinion per (judge, criterion) pair, carrying the
\* criterion's id and the node's judge name.
C27_OneOpinionPerJudgeAndCriterion ==
    (execCount["chief_justice"] > 0 /\ \A j \in Judges : outcome[j].oc # "raise") =>
        LET ops == view["chief_justice"].opinions
        IN  /\ Len(ops) = 3 * NumDims
            /\ \A j \in Judges, d \in Dims :
                  Cardinality({i \in 1..Len(ops) :
                                 ops[i].judge = NodeName(j) /\ ops[i].criterion_id = d}) = 1

\* C28: the final score is monotone in each judge's score. With the arguments,
\* the synthesis rules and the missing-artifact flag held fixed, raising one
\* judge's score by one never lowers the score _resolve_criterion returns.
C28_MonotoneInJudgeScores ==
    cj.pc = "resolved" =>
       \A i \in 1..Len(cj.ops) :
          cj.ops[i].score < 5 =>
             ResolveCriterion([cj.ops EXCEPT ![i].score = @ + 1], cj.rules, cj.missing).score
                >= cj.out.score

\* render_opinion under the assumption that every provider call and every
\* backoff wait ends: a call in progress takes its next step
SpecJudgeLive == JudgeInit /\ [][JudgeNext]_vars /\ WF_vars(JudgeNext)

\* under that assumption the call returns
RenderOpinionReturns == <>(jd.pc = "returned")

BuildContext ==
    /\ cx.pc = "idle"
    /\ \E ev \in ContextEvidences, target \in Targets :
          cx' = [pc |-> "built", target |-> target, evidences |-> ev,
                 filtered |-> FilterEvidenceByTarget(ev, target),
                 context |-> EvidenceContext(ev, target)]
    /\ UNCHANGED <<gvars, mrg, jd, cj, gr, co>>

ContextNext == BuildContext

ContextInit == Init /\ env = "unset" /\ ~conf.vision

SpecContext == ContextInit /\ [][ContextNext]_vars

\* C30: for a criterion whose target is pdf_report the evidence context sent
\* to the provider includes the RepoInvestigator evidence in addition to the
\* DocAnalyst, VisionInspector and CrossReference evidence; for a github_repo
\* criterion it includes the RepoInvestigator evidence only.
C30_ContextByTarget ==
    cx.pc = "built" =>
       /\ cx.target = "pdf_report" =>
             \A k \in {"RepoInvestigator", "DocAnalyst", "VisionInspector", "CrossReference"} :
                cx.context[k] = cx.evidences[k]
       /\ cx.target = "github_repo" =>
             /\ cx.context["RepoInvestigator"] = cx.evidences["RepoInvestigator"]
             /\ DictKeys(cx.context) \subseteq {"RepoInvestigator"}

====
